---- MODULE Spec2Model ----
(***************************************************************************)
(* AWS SQS trigger nodes for n8n: the poll-and-acknowledge cycle of the    *)
(* three node variants of the repository.                                  *)
(*                                                                         *)
(*   "manual"   src/unnamed/part_000  trigger() with pollForMessages,      *)
(*              deferred acknowledgment, parallelMessages cap              *)
(*   "poll"     src/unnamed/part_001  poll() with autoDelete               *)
(*   "interval" src/unnamed/part_002  trigger() with run/executeTrigger    *)
(*                                                                         *)
(* Every `await` of the source is a point where other handlers of the      *)
(* single-threaded event loop may run, so every handler is cut into one    *)
(* action per stretch of code between two awaits.  The SQS service and the *)
(* n8n host are the environment: a ReceiveMessage call resolves with a     *)
(* batch or rejects, a delete call resolves or rejects, the host finishes  *)
(* executions, fires timers and calls closeFunction once.                  *)
(***************************************************************************)
EXTENDS Integers, Sequences, FiniteSets, TLC

\* ---------------------------------------------------------------- bounds
MaxDeliveries == 2   \* deliveries by SQS; receipt handles are 1..MaxDeliveries
MaxBatch == 2        \* largest maxNumberOfMessages explored
MaxInv == 2          \* invocations of a cycle that can be in progress at once

Slots == 1..MaxInv

\* the queue parameter (one queue per node instance)
queueUrl == "queue"

VARIABLES
  variant,             \* which node file is loaded
  acknowledge,         \* part_000 parameter
  parallelMessages,    \* part_000 parameter
  mode,                \* part_000 this.getMode()
  maxNumberOfMessages, \* receive parameter
  autoDelete,          \* part_001 parameter
  deleteMessages,      \* part_002 options.deleteMessages: "unset" | "true" | "false"
  interval,            \* part_002 parameter
  unit,                \* part_002 parameter
  waitTimeSeconds,     \* part_002 options.waitTimeSeconds: <<>> when undefined, else <<n>>
  phase,               \* "created" | "active" | "rejected": trigger() progress
  closeRequested,      \* part_000 messageTracker.closeRequested
  isPolling,           \* part_000 isPolling
  activeMessages,      \* part_000 messageTracker.activeMessages, insertion order
  pollTimer,           \* part_000 setTimeout(startPolling, 1000) is pending
  running,             \* part_002 running
  intervalObj,         \* part_002 the timer held in intervalObj is pending
  destroyed,           \* part_002 sqsClient.destroy() was called
  cycles,              \* the invocations of pollForMessages / poll / run in progress
  closePc,             \* closeFunction: "idle" | "awaiting" | "done"
  closeVisited,        \* part_000 closeFunction: keys the map iterator has passed
  executions,          \* host: executions started by emit with a callback registered
  cbDeletes,           \* part_000 deleteMessage calls awaiting their DeleteMessage
  nextHandle,          \* SQS: next receipt handle to hand out
  queue,               \* SQS: MessageIds delivered before and not deleted yet
  deleteLog,           \* history: every DeleteMessage request of part_000 and part_001
  batchLog,            \* history: every delete request of part_002
  deleteFailures,      \* history: receipt handles whose delete call rejected (the
                       \* failures that reach a catch block of the code)
  partialFailures,     \* history: receipt handles that the Failed list of a resolved
                       \* DeleteMessageBatch call named
  thrown,              \* history: the error that the latest failed poll() raised
  fn,                  \* the function under study, "none" while a node variant runs
  arg,                 \* the input the function is applied to
  res,                 \* its result, <<>> until it was applied
  emits,               \* history: every hand-off to the host (a sequence of records)
  signalled,           \* history: MessageIds whose configured completion signal fired
  outcome,             \* history: how the latest cycle invocation ended
  closeSnapshot,       \* history: the map when closeFunction was called
  closeDeletes,        \* history: the delete requests sent by closeFunction, in order
  cbOverlap            \* history: a completion callback ran while closeFunction ran

params == <<variant, acknowledge, parallelMessages, mode, maxNumberOfMessages,
            autoDelete, deleteMessages, interval, unit, waitTimeSeconds>>
manualState == <<closeRequested, isPolling, activeMessages, pollTimer>>
intervalState == <<running, intervalObj, destroyed>>
closeState == <<closePc, closeVisited, closeSnapshot, closeDeletes, cbOverlap>>
hostState == <<executions, cbDeletes, signalled>>
sqsState == <<nextHandle, queue, deleteFailures>>
errState == <<partialFailures, thrown>>
fnState == <<fn, arg, res>>
vars == <<params, errState, fnState, phase, manualState, intervalState, closeState, hostState,
          sqsState, cycles, deleteLog, batchLog, emits, outcome>>

\* ------------------------------------------------------------ parameters
AcknowledgeOptions == {"executionFinishes", "executionFinishesSuccessfully", "immediately"}
\* NaN stands for the Number value NaN: a value outside the range of the map
\* sizes of the model, for which, as for NaN, `x === 0`, `x < -1` and
\* `size >= x` are all false
NaN == 99
ParallelOptions == {-1, 0, 1, 2, -2, NaN}
Modes == {"manual", "trigger"}
DeleteMessagesOptions == {"unset", "true", "false"}
Intervals == {0, 1, 2147484}
Units == {"seconds"}
WaitTimes == {<<>>, <<21>>, <<-1>>}
\* the messages of the errors a ReceiveMessage call can reject with
Errors == {"AccessDenied", "NetworkingError"}
NoError == [type |-> "none", message |-> <<>>]

\* ------------------------------------------------------- the in-flight map
\* Map.has
MapHas(am, id) == \E i \in 1..Len(am) : am[i].messageId = id
\* lines 413-418 with the first entry of the map taken instead of the entry of
\* the message
MapGetFirst(am, id) == am[1]
\* Map.get
MapGet(am, id) == am[CHOOSE i \in 1..Len(am) : am[i].messageId = id]
\* lines 288-291 with the entry added even when the key is present
MapSetAppends(am, id, entry) == Append(am, entry)
\* Map.set: an existing key keeps its position and takes the new value
MapSet(am, id, entry) ==
  IF MapHas(am, id)
    THEN [i \in 1..Len(am) |-> IF am[i].messageId = id THEN entry ELSE am[i]]
    ELSE Append(am, entry)
MapDelete(am, id) == SelectSeq(am, LAMBDA e : e.messageId # id)

IdleCycle == [pc |-> "idle", src |-> "none", batch |-> <<>>, idx |-> 0, ret |-> <<>>]

\* the record built from a raw message
Record(m) == [messageId |-> m.MessageId, receiptHandle |-> m.ReceiptHandle]

\* the ReceiveMessage responses: at most n messages, first redeliveries of
\* messages that were delivered before and are not deleted, then new messages;
\* every delivery has a fresh receipt handle, and a new message is named by
\* the receipt handle of its first delivery
Ascending(S) ==
  CHOOSE f \in [1..Cardinality(S) -> S] : \A i, j \in 1..Cardinality(S) : i < j => f[i] < f[j]
Batches(n) ==
  {[i \in 1..(Cardinality(R) + k) |->
      [MessageId |-> IF i <= Cardinality(R) THEN Ascending(R)[i] ELSE nextHandle + i - 1,
       ReceiptHandle |-> nextHandle + i - 1]] :
     R \in {Q \in SUBSET queue : Cardinality(Q) <= n},
     k \in 0..n}
Delivered(b) ==
  /\ Len(b) <= maxNumberOfMessages
  /\ nextHandle + Len(b) - 1 <= MaxDeliveries
  /\ nextHandle' = nextHandle + Len(b)
  /\ queue' = queue \cup {b[i].MessageId : i \in 1..Len(b)}

HasFreeSlot == \E s \in Slots : cycles[s].pc = "idle"
FreeSlot == CHOOSE s \in Slots :
  cycles[s].pc = "idle" /\ \A t \in Slots : t < s => cycles[t].pc # "idle"

\* ====================================================== part_000 (manual)
\* line 233 without the isNaN test
ParallelMessagesInvalidNoNaN(pm) == pm = 0 \/ pm < -1
\* line 233: the parallelMessages validation of trigger()
ParallelMessagesInvalid(pm) == pm = NaN \/ pm = 0 \/ pm < -1
\* line 287 with the policy test dropped
TrackAlways(ack) == TRUE
\* line 287: the message is stored in the in-flight map
Track(ack) == ack # "immediately"
\* line 295 with the policy test dropped
InlineDeleteAlways(ack, m) == m.ReceiptHandle # 0
\* line 295: the message is deleted inline, before emit
InlineDelete(ack, m) == ack = "immediately" /\ m.ReceiptHandle # 0
\* lines 309-320: a completion callback is handed to emit
CallbackRegistered(ack) == ack \in {"executionFinishes", "executionFinishesSuccessfully"}
\* lines 309-320 with the closure handed over under both keys
CallbacksBoth(ack) ==
  IF ack \in {"executionFinishes", "executionFinishesSuccessfully"}
    THEN {"executionFinished", "executionFinishedSuccessfully"}
    ELSE {}
\* lines 309-320: the keys of the emit options that carry the delete closure
Callbacks(ack) ==
  (IF ack = "executionFinishes" THEN {"executionFinished"} ELSE {})
    \cup (IF ack = "executionFinishesSuccessfully"
            THEN {"executionFinishedSuccessfully"} ELSE {})
\* lines 308-321: the execution started by emit, with the callbacks it carries
Execution(ack, m) ==
  [messageId |-> m.MessageId, receiptHandle |-> m.ReceiptHandle,
   callbacks |-> Callbacks(ack)]
\* the host fires the callbacks an execution carries when it finishes:
\* executionFinished always, executionFinishedSuccessfully after a success
SignalFires(callbacks, ok) ==
  \/ "executionFinished" \in callbacks
  \/ "executionFinishedSuccessfully" \in callbacks /\ ok
\* line 325 without the isPolling test
PollRefusedCloseOnly(cr, ip) == cr
\* line 325: pollForMessages returns at once
PollRefused(cr, ip) == cr \/ ip
\* line 333 with > for >=
CapReachedStrict(pm, am) == pm # -1 /\ Len(am) > pm
\* line 333: the parallel processing limit is reached
CapReached(pm, am) == pm # -1 /\ Len(am) >= pm
\* lines 296-305 without the try/catch: a rejected call leaves processMessage
AfterInlineDeleteThrows(ok) == IF ok THEN "emit" ELSE "throw"
\* lines 296-305: the delete call is wrapped in try/catch, so a resolved and a
\* rejected call both go on to emit
AfterInlineDelete(ok) == "emit"
\* lines 375-383 with the try/catch around the loop instead of inside it
CloseStopsOnFailure(ok) == ok
\* lines 375-383: the delete call of closeFunction is wrapped in try/catch
\* inside the loop, so the loop goes on after a rejected call
CloseContinues(ok) == TRUE
\* line 346: a receive failure is reported through emitError
ReportError(cr) == ~cr
\* line 363 with the closeRequested test inverted
RearmInverted(src, cr) == src = "timer" /\ cr
\* line 363: startPolling arms the next timer when pollForMessages settles
Rearm(src, cr) == src = "timer" /\ ~cr

\* lines 362-366 without the finally block of lines 354-356
FinishCycleNoReset(s, src, out) ==
  /\ cycles' = [cycles EXCEPT ![s] = IdleCycle]
  /\ isPolling' = isPolling
  /\ pollTimer' = IF Rearm(src, closeRequested) THEN TRUE ELSE pollTimer
  /\ outcome' = out
\* lines 354-356 and 362-366: finally { isPolling = false }, then the
\* .finally of startPolling
FinishCycle(s, src, out) ==
  /\ cycles' = [cycles EXCEPT ![s] = IdleCycle]
  /\ isPolling' = FALSE
  /\ pollTimer' = IF Rearm(src, closeRequested) THEN TRUE ELSE pollTimer
  /\ outcome' = out

\* lines 341-343 with 262-322: the loop reaches message i of batch b and runs
\* processMessage up to its first await, or leaves the loop
ProcessMessage(s, src, b, i) ==
  IF i > Len(b)
    THEN /\ FinishCycle(s, src, "done")
         /\ UNCHANGED <<activeMessages, executions, emits, deleteLog>>
    ELSE
      LET m == b[i]
          entry == [messageId |-> m.MessageId, receiptHandle |-> m.ReceiptHandle,
                    queueUrl |-> queueUrl]
          at(pc) == [pc |-> pc, src |-> src, batch |-> b, idx |-> i, ret |-> <<>>]
      IN
      IF closeRequested
        THEN /\ cycles' = [cycles EXCEPT ![s] = at("next")]
             /\ UNCHANGED <<activeMessages, executions, emits, deleteLog,
                            isPolling, pollTimer, outcome>>
        ELSE
          /\ activeMessages' = IF Track(acknowledge)
                                 THEN MapSet(activeMessages, m.MessageId, entry)
                                 ELSE activeMessages
          /\ IF InlineDelete(acknowledge, m)
               THEN /\ deleteLog' = deleteLog \cup
                         {[messageId |-> m.MessageId, receiptHandle |-> m.ReceiptHandle,
                           queueUrl |-> queueUrl, by |-> "inline", exec |-> 0]}
                    /\ cycles' = [cycles EXCEPT ![s] = at("deleting")]
                    /\ UNCHANGED <<executions, emits>>
               ELSE /\ emits' = emits \cup {<<Record(m)>>}
                    /\ executions' = IF CallbackRegistered(acknowledge)
                                       THEN executions \cup {Execution(acknowledge, m)}
                                       ELSE executions
                    /\ cycles' = [cycles EXCEPT ![s] = at("next")]
                    /\ UNCHANGED deleteLog
          /\ UNCHANGED <<isPolling, pollTimer, outcome>>

\* lines 324-338: pollForMessages up to the await of the receive call
PollForMessages(s, src) ==
  IF PollRefused(closeRequested, isPolling)
    THEN /\ outcome' = "refused"
         /\ pollTimer' = Rearm(src, closeRequested)
         /\ UNCHANGED <<cycles, isPolling>>
    ELSE IF CapReached(parallelMessages, activeMessages)
      THEN /\ outcome' = "skipped"
           /\ isPolling' = FALSE
           /\ pollTimer' = Rearm(src, closeRequested)
           /\ UNCHANGED cycles
      ELSE /\ isPolling' = TRUE
           /\ cycles' = [cycles EXCEPT ![s] =
                           [IdleCycle EXCEPT !.pc = "receiving", !.src = src]]
           /\ pollTimer' = FALSE
           /\ UNCHANGED outcome

\* lines 360-368: startPolling, from trigger() or from the timer
StartPolling(s) ==
  IF closeRequested
    THEN /\ pollTimer' = FALSE
         /\ UNCHANGED <<cycles, isPolling, outcome>>
    ELSE PollForMessages(s, "timer")

\* lines 205-238 and 388-405: trigger() of part_000
TriggerManual ==
  /\ variant = "manual" /\ phase = "created"
  /\ IF ParallelMessagesInvalid(parallelMessages)
       THEN /\ phase' = "rejected" /\ outcome' = "NodeOperationError"
            /\ UNCHANGED <<cycles, isPolling, pollTimer>>
       ELSE /\ phase' = "active"
            /\ IF mode = "manual"
                 THEN UNCHANGED <<cycles, isPolling, outcome, pollTimer>>
                 ELSE StartPolling(FreeSlot)
  /\ UNCHANGED <<params, fnState, errState, closeRequested, activeMessages, intervalState, closeState,
                 hostState, sqsState, deleteLog, batchLog, emits>>

\* line 364: the timer set by startPolling fires
TimerFires ==
  /\ variant = "manual" /\ phase = "active" /\ pollTimer /\ HasFreeSlot
  /\ StartPolling(FreeSlot)
  /\ UNCHANGED <<params, fnState, errState, phase, closeRequested, activeMessages, intervalState,
                 closeState, hostState, sqsState, deleteLog, batchLog, emits>>

\* lines 390-392 with startPolling called in place of pollForMessages
ManualTriggerFunctionLoops ==
  /\ variant = "manual" /\ phase = "active" /\ mode = "manual" /\ HasFreeSlot
  /\ StartPolling(FreeSlot)
  /\ UNCHANGED <<params, fnState, errState, phase, closeRequested, activeMessages, intervalState,
                 closeState, hostState, sqsState, deleteLog, batchLog, emits>>
\* lines 390-392: the host calls manualTriggerFunction
ManualTriggerFunction ==
  /\ variant = "manual" /\ phase = "active" /\ mode = "manual" /\ HasFreeSlot
  /\ PollForMessages(FreeSlot, "manual")
  /\ UNCHANGED <<params, fnState, errState, phase, closeRequested, activeMessages, intervalState,
                 closeState, hostState, sqsState, deleteLog, batchLog, emits>>

\* lines 338-344: the receive call resolves
ReceiveResolves(s) ==
  /\ variant = "manual" /\ cycles[s].pc = "receiving"
  /\ \E b \in Batches(maxNumberOfMessages) :
       /\ Delivered(b)
       /\ ProcessMessage(s, cycles[s].src, b, 1)
  /\ UNCHANGED <<params, fnState, errState, phase, closeRequested, intervalState, closeState,
                 cbDeletes, signalled, deleteFailures, batchLog>>

\* lines 345-356: the receive call rejects
ReceiveRejects(s) ==
  /\ variant = "manual" /\ cycles[s].pc = "receiving"
  /\ FinishCycle(s, cycles[s].src,
                 IF ReportError(closeRequested) THEN "emitError" ELSE "suppressed")
  /\ UNCHANGED <<params, fnState, errState, phase, closeRequested, activeMessages, intervalState,
                 closeState, hostState, sqsState, deleteLog, batchLog, emits>>

\* lines 301-321: the inline delete settles (a failure is only logged), the
\* record is emitted
InlineDeleteSettles(s, ok) ==
  /\ variant = "manual" /\ cycles[s].pc = "deleting"
  /\ LET m == cycles[s].batch[cycles[s].idx] IN
       /\ queue' = IF ok THEN queue \ {m.MessageId} ELSE queue
       /\ deleteFailures' = IF ok THEN deleteFailures
                                  ELSE deleteFailures \cup {m.ReceiptHandle}
       /\ IF AfterInlineDelete(ok) = "emit"
            THEN /\ emits' = emits \cup {<<Record(m)>>}
                 /\ executions' = IF CallbackRegistered(acknowledge)
                                    THEN executions \cup {Execution(acknowledge, m)}
                                    ELSE executions
                 /\ cycles' = [cycles EXCEPT ![s].pc = "next"]
                 /\ UNCHANGED <<isPolling, pollTimer, outcome>>
            ELSE /\ FinishCycle(s, cycles[s].src,
                                IF ReportError(closeRequested) THEN "emitError"
                                                               ELSE "suppressed")
                 /\ UNCHANGED <<emits, executions>>
  /\ UNCHANGED <<params, fnState, errState, phase, closeRequested, activeMessages, intervalState,
                 closeState, cbDeletes, signalled, nextHandle, deleteLog, batchLog>>

\* line 342: `await processMessage(message)` resumes, the loop goes on
NextMessage(s) ==
  /\ variant = "manual" /\ cycles[s].pc = "next"
  /\ ProcessMessage(s, cycles[s].src, cycles[s].batch, cycles[s].idx + 1)
  /\ UNCHANGED <<params, fnState, errState, phase, closeRequested, intervalState, closeState,
                 cbDeletes, signalled, sqsState, batchLog>>

\* lines 408-426: the host finishes execution e; the registered callback runs
\* deleteMessage up to the await of its delete call
FinishExecution(e, ok) ==
  /\ variant = "manual" /\ e \in executions
  /\ executions' = executions \ {e}
  /\ IF SignalFires(e.callbacks, ok)
       THEN /\ signalled' = signalled \cup {e.messageId}
            /\ IF MapHas(activeMessages, e.messageId)
                 THEN LET messageData == MapGet(activeMessages, e.messageId)
                          call == [messageId |-> e.messageId,
                                   receiptHandle |-> messageData.receiptHandle,
                                   queueUrl |-> messageData.queueUrl,
                                   by |-> "callback", exec |-> e.receiptHandle]
                      IN /\ deleteLog' = deleteLog \cup {call}
                         /\ cbDeletes' = cbDeletes \cup {call}
                         /\ cbOverlap' = (cbOverlap \/ closePc = "awaiting")
                 ELSE UNCHANGED <<deleteLog, cbDeletes, cbOverlap>>
       ELSE UNCHANGED <<signalled, deleteLog, cbDeletes, cbOverlap>>
  /\ UNCHANGED <<params, fnState, errState, phase, manualState, intervalState, closePc,
                 closeVisited, closeSnapshot, closeDeletes, sqsState, cycles, batchLog, emits,
                 outcome>>

\* lines 420-424: the delete call of deleteMessage settles
CallbackDeleteSettles(d, ok) ==
  /\ variant = "manual" /\ d \in cbDeletes
  /\ cbDeletes' = cbDeletes \ {d}
  /\ activeMessages' = IF ok THEN MapDelete(activeMessages, d.messageId)
                             ELSE activeMessages
  /\ queue' = IF ok THEN queue \ {d.messageId} ELSE queue
  /\ deleteFailures' = IF ok THEN deleteFailures
                             ELSE deleteFailures \cup {d.receiptHandle}
  /\ UNCHANGED <<params, fnState, errState, phase, closeRequested, isPolling, pollTimer, intervalState,
                 closeState, executions, signalled, nextHandle, cycles, deleteLog,
                 batchLog, emits, outcome>>

\* lines 374-385: the map iterator of closeFunction moves to the next entry and
\* sends its delete, or the loop ends and the map is cleared
CloseLoop(visited) ==
  LET rest == SelectSeq(activeMessages, LAMBDA e : e.messageId \notin visited) IN
  IF rest # <<>>
    THEN LET messageData == rest[1] IN
         /\ closeDeletes' = Append(closeDeletes,
                                   [messageId |-> messageData.messageId,
                                    queueUrl |-> messageData.queueUrl,
                                    receiptHandle |-> messageData.receiptHandle])
         /\ deleteLog' = deleteLog \cup
              {[messageId |-> messageData.messageId,
                receiptHandle |-> messageData.receiptHandle,
                queueUrl |-> messageData.queueUrl, by |-> "close", exec |-> 0]}
         /\ closeVisited' = visited \cup {messageData.messageId}
         /\ closePc' = "awaiting"
         /\ UNCHANGED activeMessages
    ELSE /\ activeMessages' = <<>>
         /\ closePc' = "done"
         /\ closeVisited' = visited
         /\ UNCHANGED <<closeDeletes, deleteLog>>

\* lines 370-386: the host calls closeFunction of part_000
CloseFunction ==
  /\ variant = "manual" /\ phase = "active" /\ closePc = "idle"
  /\ closeRequested' = TRUE
  /\ closeSnapshot' = activeMessages
  /\ cbOverlap' = (cbDeletes # {})
  /\ CloseLoop({})
  /\ UNCHANGED <<params, fnState, errState, phase, isPolling, pollTimer, intervalState, hostState,
                 sqsState, cycles, batchLog, emits, outcome>>

\* lines 380-384: a delete call of closeFunction settles (a failure is only logged)
CloseDeleteSettles(ok) ==
  /\ variant = "manual" /\ closePc = "awaiting"
  /\ LET sent == closeDeletes[Len(closeDeletes)] IN
       /\ queue' = IF ok THEN queue \ {sent.messageId} ELSE queue
       /\ deleteFailures' = IF ok THEN deleteFailures
                                  ELSE deleteFailures \cup {sent.receiptHandle}
  /\ IF CloseContinues(ok)
       THEN CloseLoop(closeVisited)
       ELSE /\ closePc' = "done"
            /\ UNCHANGED <<activeMessages, closeVisited, closeDeletes, deleteLog>>
  /\ UNCHANGED <<params, fnState, errState, phase, closeRequested, isPolling, pollTimer, intervalState,
                 closeSnapshot, cbOverlap, hostState, nextHandle, cycles, batchLog,
                 emits, outcome>>

\* ======================================================== part_001 (poll)
\* line 203 without the test
NoMessagesNever(b) == FALSE
\* part_001 line 203, part_002 line 262: the response carries no messages
NoMessages(b) == Len(b) = 0
\* line 248 without the prefix
ReceiveFailureMessageBare(err) == <<err>>
\* line 248: `Failed to receive messages from SQS queue: ${error.message}`
ReceiveFailureMessage(err) == <<"Failed to receive messages from SQS queue: ", err>>
\* line 231 with the delete never sent
PollDeletesNone(ad, m) == FALSE
\* line 231: the message is deleted after its record was pushed
PollDeletes(ad, m) == ad /\ m.ReceiptHandle # 0

\* lines 209-244: the loop of poll() from message i on, with returnData = ret,
\* up to the await of the next delete call or to the return
PollLoop(s, b, i, ret) ==
  LET stops == {j \in i..Len(b) : PollDeletes(autoDelete, b[j])}
      last == IF stops = {} THEN Len(b)
              ELSE CHOOSE j \in stops : \A k \in stops : j <= k
      pushed == ret \o [k \in 1..(last - i + 1) |-> Record(b[i + k - 1])]
  IN
  IF stops = {}
    THEN /\ emits' = emits \cup {pushed}
         /\ outcome' = "done"
         /\ cycles' = [cycles EXCEPT ![s] = IdleCycle]
         /\ UNCHANGED deleteLog
    ELSE /\ deleteLog' = deleteLog \cup
              {[messageId |-> b[last].MessageId, receiptHandle |-> b[last].ReceiptHandle,
                queueUrl |-> queueUrl, by |-> "poll", exec |-> 0]}
         /\ cycles' = [cycles EXCEPT ![s] =
                         [pc |-> "deleting", src |-> "poll", batch |-> b,
                          idx |-> last, ret |-> pushed]]
         /\ UNCHANGED <<emits, outcome>>

\* lines 154-201: the host calls poll(); it runs up to the await of the receive
Poll ==
  /\ variant = "poll" /\ \A s \in Slots : cycles[s].pc = "idle"
  /\ cycles' = [cycles EXCEPT ![FreeSlot] =
                  [IdleCycle EXCEPT !.pc = "receiving", !.src = "poll"]]
  /\ UNCHANGED <<params, fnState, errState, phase, manualState, intervalState, closeState, hostState,
                 sqsState, deleteLog, batchLog, emits, outcome>>

\* lines 201-207: the receive call of poll() resolves
PollReceiveResolves(s) ==
  /\ variant = "poll" /\ cycles[s].pc = "receiving"
  /\ \E b \in Batches(maxNumberOfMessages) :
       /\ Delivered(b)
       /\ IF NoMessages(b)
            THEN /\ outcome' = "empty"
                 /\ cycles' = [cycles EXCEPT ![s] = IdleCycle]
                 /\ UNCHANGED <<emits, deleteLog>>
            ELSE PollLoop(s, b, 1, <<>>)
  /\ UNCHANGED <<params, fnState, errState, phase, manualState, intervalState, closeState, hostState,
                 deleteFailures, batchLog>>

\* lines 245-250: the receive call of poll() rejects with an error of message
\* err, poll() throws
PollReceiveRejects(s, err) ==
  /\ variant = "poll" /\ cycles[s].pc = "receiving"
  /\ outcome' = "thrown"
  /\ thrown' = [type |-> "NodeOperationError", message |-> ReceiveFailureMessage(err)]
  /\ cycles' = [cycles EXCEPT ![s] = IdleCycle]
  /\ UNCHANGED <<params, fnState, partialFailures, phase, manualState, intervalState, closeState, hostState,
                 sqsState, deleteLog, batchLog, emits>>

\* lines 237-242: a delete call of poll() settles (a failure is only logged)
PollDeleteSettles(s, ok) ==
  /\ variant = "poll" /\ cycles[s].pc = "deleting"
  /\ queue' = IF ok THEN queue \ {cycles[s].batch[cycles[s].idx].MessageId}
                    ELSE queue
  /\ deleteFailures' = IF ok THEN deleteFailures
                             ELSE deleteFailures \cup
                                    {cycles[s].batch[cycles[s].idx].ReceiptHandle}
  /\ PollLoop(s, cycles[s].batch, cycles[s].idx + 1, cycles[s].ret)
  /\ UNCHANGED <<params, fnState, errState, phase, manualState, intervalState, closeState, hostState,
                 nextHandle, batchLog>>

\* ==================================================== part_002 (interval)
MaxTimeout == 2147483647
UnitFactor(u) == CASE u = "minutes" -> 60 [] u = "hours" -> 60 * 60 [] OTHER -> 1
\* line 225 with >= for >
IntervalTooLargeInclusive(iv, u) == iv >= MaxTimeout \div (UnitFactor(u) * 1000)
\* lines 215-225: intervalValue > 2147483647, for an integral interval
IntervalTooLarge(iv, u) == iv > MaxTimeout \div (UnitFactor(u) * 1000)
\* lines 208-213
WaitTimeInvalid(w) == w # <<>> /\ (w[1] < 0 \/ w[1] > 20)
\* line 285 with `=== true` for `!== false`
DeletionEnabledOnlyTrue(dm) == dm = "true"
\* line 285: options.deleteMessages !== false
DeletionEnabled(dm) == dm # "false"
\* lines 215-223: the period in milliseconds (for an accepted interval)
IntervalValue(iv, u) == iv * UnitFactor(u) * 1000
\* line 318 without the running test
RunRearmsAlways(rn) == TRUE
\* line 318: run arms the next timer
RunRearms(rn) == rn

\* line 294 with the same Id for every entry
DeleteRequestSameId(b) ==
  IF Len(b) = 1
    THEN [kind |-> "DeleteMessage", queueUrl |-> queueUrl,
          entries |-> <<[Id |-> 0, ReceiptHandle |-> b[1].ReceiptHandle]>>]
    ELSE [kind |-> "DeleteMessageBatch", queueUrl |-> queueUrl,
          entries |-> [i \in 1..Len(b) |-> [Id |-> 1, ReceiptHandle |-> b[i].ReceiptHandle]]]
\* lines 286-302: one DeleteMessage for one message, else one DeleteMessageBatch
\* whose entry i has Id `msg${i}` (modelled by i)
DeleteRequest(b) ==
  IF Len(b) = 1
    THEN [kind |-> "DeleteMessage", queueUrl |-> queueUrl,
          entries |-> <<[Id |-> 0, ReceiptHandle |-> b[1].ReceiptHandle]>>]
    ELSE [kind |-> "DeleteMessageBatch", queueUrl |-> queueUrl,
          entries |-> [i \in 1..Len(b) |-> [Id |-> i, ReceiptHandle |-> b[i].ReceiptHandle]]]

\* lines 195-238 and 313-314: trigger() of part_002
TriggerInterval ==
  /\ variant = "interval" /\ phase = "created"
  /\ IF interval <= 0 \/ WaitTimeInvalid(waitTimeSeconds)
       THEN /\ phase' = "rejected" /\ outcome' = "NodeOperationError"
            /\ UNCHANGED <<running, intervalObj>>
       ELSE IF IntervalTooLarge(interval, unit)
         THEN /\ phase' = "rejected" /\ outcome' = "NodeApiError"
              /\ UNCHANGED <<running, intervalObj>>
         ELSE /\ phase' = "active" /\ running' = TRUE /\ intervalObj' = TRUE
              /\ UNCHANGED outcome
  /\ UNCHANGED <<params, fnState, errState, manualState, destroyed, closeState, hostState, sqsState,
                 cycles, deleteLog, batchLog, emits>>

\* lines 316-317 with 239-260: the timer fires, run() calls executeTrigger up to
\* the await of the receive call
Run ==
  /\ variant = "interval" /\ intervalObj /\ HasFreeSlot
  /\ intervalObj' = FALSE
  /\ cycles' = [cycles EXCEPT ![FreeSlot] =
                  [IdleCycle EXCEPT !.pc = "receiving", !.src = "timer"]]
  /\ UNCHANGED <<params, fnState, errState, phase, manualState, running, destroyed, closeState,
                 hostState, sqsState, deleteLog, batchLog, emits, outcome>>

\* lines 317-320: executeTrigger resolved, run() goes on
RunResumes(s, out) ==
  /\ cycles' = [cycles EXCEPT ![s] = IdleCycle]
  /\ intervalObj' = IF RunRearms(running) THEN TRUE ELSE intervalObj
  /\ outcome' = out

\* lines 308-310: executeTrigger throws, the promise of run() rejects
RunRejects(s) ==
  /\ cycles' = [cycles EXCEPT ![s] = IdleCycle]
  /\ outcome' = "thrown"
  /\ UNCHANGED intervalObj

\* lines 260-307: the receive call of executeTrigger resolves
IntervalReceiveResolves(s) ==
  /\ variant = "interval" /\ cycles[s].pc = "receiving"
  /\ \E b \in Batches(maxNumberOfMessages) :
       /\ Delivered(b)
       /\ LET msgs == b
              returnMessages == [i \in 1..Len(msgs) |-> Record(msgs[i])]
          IN
          IF NoMessages(msgs)
            THEN /\ RunResumes(s, "empty")
                 /\ UNCHANGED <<batchLog, emits>>
            ELSE IF DeletionEnabled(deleteMessages)
              THEN /\ batchLog' = batchLog \cup {DeleteRequest(msgs)}
                   /\ cycles' = [cycles EXCEPT ![s] =
                                   [pc |-> "deleting", src |-> "timer", batch |-> msgs,
                                    idx |-> 0, ret |-> returnMessages]]
                   /\ UNCHANGED <<emits, intervalObj, outcome>>
              ELSE /\ emits' = emits \cup {returnMessages}
                   /\ RunResumes(s, "done")
                   /\ UNCHANGED batchLog
  /\ UNCHANGED <<params, fnState, errState, phase, manualState, running, destroyed, closeState,
                 hostState, deleteFailures, deleteLog>>

\* lines 260 and 308-310: the receive call of executeTrigger rejects
IntervalReceiveRejects(s) ==
  /\ variant = "interval" /\ cycles[s].pc = "receiving"
  /\ RunRejects(s)
  /\ UNCHANGED <<params, fnState, errState, phase, manualState, running, destroyed, closeState,
                 hostState, sqsState, deleteLog, batchLog, emits>>

\* lines 291/302-306: the delete call of executeTrigger resolves, emit follows;
\* the response of a DeleteMessageBatch call names the entries `failed` in its
\* Failed list, and the code does not read the response
IntervalDeleteResolves(s, failed) ==
  /\ variant = "interval" /\ cycles[s].pc = "deleting"
  /\ failed \subseteq 1..Len(cycles[s].batch)
  /\ Len(cycles[s].batch) = 1 => failed = {}
  /\ emits' = emits \cup {cycles[s].ret}
  /\ queue' = queue \
       {cycles[s].batch[i].MessageId : i \in (1..Len(cycles[s].batch)) \ failed}
  /\ partialFailures' = partialFailures \cup
       {cycles[s].batch[i].ReceiptHandle : i \in failed}
  /\ RunResumes(s, "done")
  /\ UNCHANGED <<params, fnState, thrown, phase, manualState, running, destroyed, closeState,
                 hostState, nextHandle, deleteFailures, deleteLog, batchLog>>

\* lines 291/302 and 308-310: the delete call of executeTrigger rejects
IntervalDeleteRejects(s) ==
  /\ variant = "interval" /\ cycles[s].pc = "deleting"
  /\ RunRejects(s)
  /\ deleteFailures' = deleteFailures \cup
       {cycles[s].batch[i].ReceiptHandle : i \in 1..Len(cycles[s].batch)}
  /\ UNCHANGED <<params, fnState, errState, phase, manualState, running, destroyed, closeState,
                 hostState, nextHandle, queue, deleteLog, batchLog, emits>>

\* lines 323-327: the host calls closeFunction of part_002
CloseInterval ==
  /\ variant = "interval" /\ phase = "active" /\ closePc = "idle"
  /\ running' = FALSE
  /\ intervalObj' = FALSE
  /\ destroyed' = TRUE
  /\ closePc' = "done"
  /\ UNCHANGED <<params, fnState, errState, phase, manualState, closeVisited, closeSnapshot,
                 closeDeletes, cbOverlap, hostState, sqsState, cycles, deleteLog,
                 batchLog, emits, outcome>>

\* ============================================ the functions of the nodes
\* Second specification: one function of the source is applied to one input.
\* Init draws the function and its input, the action of the function computes
\* the result.

\* ------------------------------------------------ JavaScript values
\* a value is [t |-> its type, v |-> its content]: the text of a string, the
\* canonical JSON text of an object, "" otherwise
Undefined == [t |-> "undefined", v |-> ""]
Null == [t |-> "null", v |-> ""]
Str(text) == [t |-> "string", v |-> text]
Obj(json) == [t |-> "object", v |-> json]
EmptyObject == Obj("{}")
Truthy(x) == ~(x.t \in {"undefined", "null"} \/ x = Str(""))
\* x || y
Or(x, y) == IF Truthy(x) THEN x ELSE y
\* JSON.parse on the texts of the model: the decoded value, or a SyntaxError
\* (the argument undefined is converted to the text "undefined" first)
JsonParse(x) ==
  CASE x = Str("{}") -> [threw |-> FALSE, value |-> EmptyObject]
    [] x = Str("{\"a\":1}") -> [threw |-> FALSE, value |-> Obj("{\"a\":1}")]
    [] x = Str("{ \"a\" : 1 }") -> [threw |-> FALSE, value |-> Obj("{\"a\":1}")]
    [] x = Str("null") -> [threw |-> FALSE, value |-> Null]
    [] OTHER -> [threw |-> TRUE, value |-> Undefined]

\* the raw messages of a ReceiveMessage response
Bodies == {Undefined, Str(""), Str("{}"), Str("{\"a\":1}"), Str("{ \"a\" : 1 }"),
           Str("null"), Str("not json")}
RawMessages ==
  [MessageId : {Str("id-1")},
   Body : Bodies,
   ReceiptHandle : {Undefined, Str("rh-1")},
   MD5OfBody : {Undefined, Str("md5-1")},
   Attributes : {Undefined, Obj("{\"SentTimestamp\":\"1\"}")},
   MessageAttributes : {Undefined, Obj("{\"k\":{\"StringValue\":\"x\"}}")},
   MD5OfMessageAttributes : {Undefined}]
\* the second message of a fetch: only its body varies
PlainMessages ==
  [MessageId : {Str("id-2")}, Body : Bodies, ReceiptHandle : {Str("rh-2")},
   MD5OfBody : {Str("md5-2")}, Attributes : {Undefined},
   MessageAttributes : {Undefined}, MD5OfMessageAttributes : {Str("md5-a")}]
Fetches == {<<m1, m2>> : m1 \in RawMessages, m2 \in PlainMessages}
\* new Date().toISOString()
Now == Str("2026-01-01T00:00:00.000Z")

\* part_000 lines 279-284: JSON.parse(message.Body || '{}') in try/catch
ParseBody000(body) ==
  LET p == JsonParse(Or(body, Str("{}"))) IN
  [threw |-> FALSE, value |-> IF p.threw THEN Null ELSE p.value]
\* lines 222-227 without the try/catch
ParseBody001NoCatch(body) == JsonParse(Or(body, Str("{}")))
\* part_001 lines 222-227: JSON.parse(message.Body || '{}') in try/catch
ParseBody001(body) ==
  LET p == JsonParse(Or(body, Str("{}"))) IN
  [threw |-> FALSE, value |-> IF p.threw THEN Null ELSE p.value]
\* lines 264-269 with the body parsed whether it is present or not
ParseBody002AlwaysParse(body) ==
  LET p == JsonParse(body) IN
  [threw |-> FALSE, value |-> IF p.threw THEN body ELSE p.value]
\* part_002 lines 264-269: message.Body ? JSON.parse(message.Body) : {} in
\* try/catch
ParseBody002(body) ==
  IF Truthy(body)
    THEN LET p == JsonParse(body) IN
         [threw |-> FALSE, value |-> IF p.threw THEN body ELSE p.value]
    ELSE [threw |-> FALSE, value |-> EmptyObject]

\* part_000 lines 267-284
NodeExecutionData000(m) ==
  [messageId |-> m.MessageId, body |-> m.Body, receiptHandle |-> m.ReceiptHandle,
   md5OfBody |-> m.MD5OfBody, attributes |-> Or(m.Attributes, EmptyObject),
   messageAttributes |-> Or(m.MessageAttributes, EmptyObject), timestamp |-> Now,
   parsedBody |-> ParseBody000(m.Body).value]
\* lines 210-220 with the raw maps copied as they are
NodeExecutionData001RawMaps(m) ==
  [messageId |-> m.MessageId, body |-> m.Body, receiptHandle |-> m.ReceiptHandle,
   md5OfBody |-> m.MD5OfBody, attributes |-> m.Attributes,
   messageAttributes |-> m.MessageAttributes, timestamp |-> Now,
   parsedBody |-> ParseBody001(m.Body).value]
\* part_001 lines 210-227
NodeExecutionData001(m) ==
  [messageId |-> m.MessageId, body |-> m.Body, receiptHandle |-> m.ReceiptHandle,
   md5OfBody |-> m.MD5OfBody, attributes |-> Or(m.Attributes, EmptyObject),
   messageAttributes |-> Or(m.MessageAttributes, EmptyObject), timestamp |-> Now,
   parsedBody |-> ParseBody001(m.Body).value]
\* part_002 lines 263-283
NodeExecutionData002(m) ==
  [messageId |-> m.MessageId, receiptHandle |-> m.ReceiptHandle, body |-> m.Body,
   parsedBody |-> ParseBody002(m.Body).value,
   attributes |-> Or(m.Attributes, EmptyObject),
   messageAttributes |-> Or(m.MessageAttributes, EmptyObject),
   md5OfBody |-> m.MD5OfBody, md5OfMessageAttributes |-> m.MD5OfMessageAttributes]

\* the records of a fetch, or the exception that left the loop over it
Built(threw, records) ==
  IF threw THEN [threw |-> TRUE, records |-> <<>>]
           ELSE [threw |-> FALSE, records |-> records]

fnRest == <<params, errState, fn, arg, phase, manualState, intervalState,
            closeState, hostState, sqsState, cycles, deleteLog, batchLog,
            emits, outcome>>

\* part_000 lines 340-344 with 267-284: the records of the messages of a fetch
Transform000 ==
  /\ fn = "processMessage" /\ res = <<>>
  /\ res' = Built(\E i \in 1..Len(arg) : ParseBody000(arg[i].Body).threw,
                  [i \in 1..Len(arg) |-> NodeExecutionData000(arg[i])])
  /\ UNCHANGED fnRest

\* part_001 lines 207-229: the records of the messages of a fetch
Transform001 ==
  /\ fn = "poll" /\ res = <<>>
  /\ res' = Built(\E i \in 1..Len(arg) : ParseBody001(arg[i].Body).threw,
                  [i \in 1..Len(arg) |-> NodeExecutionData001(arg[i])])
  /\ UNCHANGED fnRest

\* part_002 lines 262-283: the records of the messages of a fetch
Transform002 ==
  /\ fn = "executeTrigger" /\ res = <<>>
  /\ res' = Built(\E i \in 1..Len(arg) : ParseBody002(arg[i].Body).threw,
                  [i \in 1..Len(arg) |-> NodeExecutionData002(arg[i])])
  /\ UNCHANGED fnRest

\* -------------------------------------------- part_002 interval conversion
FnIntervals == {-1, 0, 1, 596, 597, 35791, 35792, 2147483, 2147484}
FnUnits == {"seconds", "minutes", "hours"}
FnWaitTimes == {<<>>, <<-1>>, <<0>>, <<20>>, <<21>>}
IntervalInputs ==
  [interval : FnIntervals, unit : FnUnits, waitTimeSeconds : FnWaitTimes]

\* part_002 lines 201-227 and 314-319: the validation of trigger() and the
\* delay it hands to setTimeout
ConvertInterval ==
  /\ fn = "trigger" /\ res = <<>>
  /\ res' = IF arg.interval <= 0 \/ WaitTimeInvalid(arg.waitTimeSeconds)
              THEN [error |-> "NodeOperationError", delay |-> 0]
              ELSE IF IntervalTooLarge(arg.interval, arg.unit)
                THEN [error |-> "NodeApiError", delay |-> 0]
                ELSE [error |-> "none", delay |-> IntervalValue(arg.interval, arg.unit)]
  /\ UNCHANGED fnRest

\* ---------------------------------------------------------- strings
\* a string whose characters matter is the sequence of its characters
RECURSIVE SplitAcc(_, _, _)
SplitAcc(str, sep, cur) ==
  IF str = <<>> THEN <<cur>>
  ELSE IF Head(str) = sep THEN <<cur>> \o SplitAcc(Tail(str), sep, <<>>)
  ELSE SplitAcc(Tail(str), sep, Append(cur, Head(str)))
\* String.prototype.split
Split(str, sep) == SplitAcc(str, sep, <<>>)
RECURSIVE TrimStart(_)
TrimStart(str) == IF str # <<>> /\ Head(str) = " " THEN TrimStart(Tail(str)) ELSE str
RECURSIVE TrimEnd(_)
TrimEnd(str) ==
  IF str # <<>> /\ str[Len(str)] = " " THEN TrimEnd(SubSeq(str, 1, Len(str) - 1)) ELSE str
\* String.prototype.trim
Trim(str) == TrimEnd(TrimStart(str))
All == <<"A", "l", "l">>

\* ------------------------------------------ part_001 receive parameters
\* an optional value is <<>> when it is unset and <<x>> when it is x
MessageAttributeNamesOptions ==
  {<<>>, << <<>> >>, <<All>>, << <<"a">> >>, << <<"a", ",", "b">> >>,
   << <<" ", "a", " ", ",", " ", "b">> >>, << <<"A", "l", "l", ",", "a">> >>,
   << <<"a", ",">> >>}
AttributeNamesOptions ==
  {<<>>, << <<>> >>, << <<"All">> >>, << <<"SentTimestamp", "ApproximateReceiveCount">> >>}
ReceiveInputs ==
  [queueUrl : {queueUrl}, maxNumberOfMessages : {1, 10}, visibilityTimeout : {0, 20},
   waitTimeSeconds : {0, 20}, includeMessageAttributes : BOOLEAN,
   messageAttributeNames : MessageAttributeNamesOptions,
   attributeNames : AttributeNamesOptions]

\* lines 190-196 without the trim
MessageAttributeNamesNoTrim(option) ==
  LET messageAttributeNames == IF option = <<>> \/ option = << <<>> >> THEN All
                                                                     ELSE option[1]
  IN IF messageAttributeNames = All THEN <<All>>
     ELSE Split(messageAttributeNames, ",")
\* part_001 lines 188-196: options.messageAttributeNames || 'All', split on
\* commas and trimmed unless it is 'All'
MessageAttributeNames(option) ==
  LET messageAttributeNames == IF option = <<>> \/ option = << <<>> >> THEN All
                                                                     ELSE option[1]
  IN IF messageAttributeNames = All THEN <<All>>
     ELSE LET parts == Split(messageAttributeNames, ",")
          IN [i \in 1..Len(parts) |-> Trim(parts[i])]

\* part_001 lines 177-197: receiveParams
ReceiveParams(in) ==
  [QueueUrl |-> in.queueUrl,
   MaxNumberOfMessages |-> in.maxNumberOfMessages,
   VisibilityTimeout |-> in.visibilityTimeout,
   WaitTimeSeconds |-> in.waitTimeSeconds,
   AttributeNames |-> IF in.attributeNames # <<>> /\ Len(in.attributeNames[1]) > 0
                        THEN in.attributeNames ELSE <<>>,
   MessageAttributeNames |-> IF in.includeMessageAttributes
                               THEN <<MessageAttributeNames(in.messageAttributeNames)>>
                               ELSE <<>>]

\* part_001 lines 177-200: poll() builds the ReceiveMessage request
BuildReceiveParams ==
  /\ fn = "receiveParams" /\ res = <<>>
  /\ res' = ReceiveParams(arg)
  /\ UNCHANGED fnRest

\* --------------------------------------------------- part_002 getQueues
MaxQueues == 2       \* longest QueueUrls list explored
QueueUrlTexts ==
  {<<"h", "/", "1", "/", "a">>, <<"h", "/", "2", "/", "b", "c">>, <<"q">>, <<"h", "/">>}
QueueUrlLists == UNION {[1..n -> QueueUrlTexts] : n \in 0..MaxQueues}
ListQueuesOutcomes ==
  [kind : {"resolves"}, QueueUrls : {<<>>} \cup {<<l>> : l \in QueueUrlLists}]
    \cup [kind : {"rejects"}, error : Errors]

\* line 177 with the first part taken
QueueNameFirst(url) == LET urlParts == Split(url, "/") IN urlParts[1]
\* part_002 lines 176-177: the last part of the URL split on '/'
QueueName(url) == LET urlParts == Split(url, "/") IN urlParts[Len(urlParts)]

\* part_002 lines 159-172: getQueues up to the await of the ListQueues call
GetQueues ==
  /\ fn = "getQueues" /\ res = <<>>
  /\ res' = [pc |-> "awaiting", destroyed |-> 0, error |-> "none", options |-> <<>>]
  /\ UNCHANGED fnRest

\* part_002 lines 172-189: the ListQueues call settles; return or throw, then
\* the finally block
ListQueuesSettles ==
  /\ fn = "getQueues" /\ res # <<>> /\ res.pc = "awaiting"
  /\ res' =
       IF arg.kind = "rejects"
         THEN [pc |-> "thrown", destroyed |-> res.destroyed + 1,
               error |-> "NodeApiError", options |-> <<>>]
       ELSE IF arg.QueueUrls = <<>> \/ Len(arg.QueueUrls[1]) = 0
         THEN [pc |-> "returned", destroyed |-> res.destroyed + 1,
               error |-> "none", options |-> <<>>]
       ELSE [pc |-> "returned", destroyed |-> res.destroyed + 1, error |-> "none",
             options |-> [i \in 1..Len(arg.QueueUrls[1]) |->
                            [name |-> QueueName(arg.QueueUrls[1][i]),
                             value |-> arg.QueueUrls[1][i]]]]
  /\ UNCHANGED fnRest

\* ================================================================ system
Init ==
  /\ variant \in {"manual", "poll", "interval"}
  /\ maxNumberOfMessages \in 1..MaxBatch
  /\ IF variant = "manual"
       THEN /\ acknowledge \in AcknowledgeOptions
            /\ parallelMessages \in ParallelOptions
            /\ mode \in Modes
       ELSE acknowledge = "immediately" /\ parallelMessages = -1 /\ mode = "trigger"
  /\ IF variant = "poll" THEN autoDelete \in BOOLEAN ELSE autoDelete = TRUE
  /\ IF variant = "interval"
       THEN /\ deleteMessages \in DeleteMessagesOptions
            /\ interval \in Intervals
            /\ unit \in Units
            /\ waitTimeSeconds \in WaitTimes
       ELSE deleteMessages = "unset" /\ interval = 1 /\ unit = "seconds"
            /\ waitTimeSeconds = <<>>
  /\ phase = IF variant = "poll" THEN "active" ELSE "created"
  /\ closeRequested = FALSE
  /\ isPolling = FALSE
  /\ activeMessages = <<>>
  /\ pollTimer = FALSE
  /\ running = FALSE
  /\ intervalObj = FALSE
  /\ destroyed = FALSE
  /\ cycles = [s \in Slots |-> IdleCycle]
  /\ closePc = "idle"
  /\ closeVisited = {}
  /\ executions = {}
  /\ cbDeletes = {}
  /\ nextHandle = 1
  /\ queue = {}
  /\ deleteLog = {}
  /\ batchLog = {}
  /\ deleteFailures = {}
  /\ partialFailures = {}
  /\ thrown = NoError
  /\ fn = "none" /\ arg = <<>> /\ res = <<>>
  /\ emits = {}
  /\ signalled = {}
  /\ outcome = "none"
  /\ closeSnapshot = <<>>
  /\ closeDeletes = <<>>
  /\ cbOverlap = FALSE

Next ==
  \/ TriggerManual
  \/ TimerFires
  \/ ManualTriggerFunction
  \/ \E s \in Slots : ReceiveResolves(s)
  \/ \E s \in Slots : ReceiveRejects(s)
  \/ \E s \in Slots, ok \in BOOLEAN : InlineDeleteSettles(s, ok)
  \/ \E s \in Slots : NextMessage(s)
  \/ \E e \in executions, ok \in BOOLEAN : FinishExecution(e, ok)
  \/ \E d \in cbDeletes, ok \in BOOLEAN : CallbackDeleteSettles(d, ok)
  \/ CloseFunction
  \/ \E ok \in BOOLEAN : CloseDeleteSettles(ok)
  \/ Poll
  \/ \E s \in Slots : PollReceiveResolves(s)
  \/ \E s \in Slots, err \in Errors : PollReceiveRejects(s, err)
  \/ \E s \in Slots, ok \in BOOLEAN : PollDeleteSettles(s, ok)
  \/ TriggerInterval
  \/ Run
  \/ \E s \in Slots : IntervalReceiveResolves(s)
  \/ \E s \in Slots : IntervalReceiveRejects(s)
  \/ \E s \in Slots, failed \in SUBSET (1..MaxBatch) : IntervalDeleteResolves(s, failed)
  \/ \E s \in Slots : IntervalDeleteRejects(s)
  \/ CloseInterval

Spec == Init /\ [][Next]_vars

\* the second specification: a function and its input are drawn, the rest of
\* the state is that of a node that is not loaded
FnInputs(f) ==
  CASE f = "trigger" -> IntervalInputs
    [] f \in {"processMessage", "poll", "executeTrigger"} -> Fetches
    [] f = "receiveParams" -> ReceiveInputs
    [] f = "getQueues" -> ListQueuesOutcomes
FnInit ==
  /\ fn \in {"trigger", "processMessage", "poll", "executeTrigger", "receiveParams",
             "getQueues"}
  /\ arg \in FnInputs(fn)
  /\ res = <<>>
  /\ variant = "none" /\ maxNumberOfMessages = 1
  /\ acknowledge = "immediately" /\ parallelMessages = -1 /\ mode = "trigger"
  /\ autoDelete = TRUE
  /\ deleteMessages = "unset" /\ interval = 1 /\ unit = "seconds"
  /\ waitTimeSeconds = <<>>
  /\ phase = "created"
  /\ closeRequested = FALSE
  /\ isPolling = FALSE
  /\ activeMessages = <<>>
  /\ pollTimer = FALSE
  /\ running = FALSE
  /\ intervalObj = FALSE
  /\ destroyed = FALSE
  /\ cycles = [s \in Slots |-> IdleCycle]
  /\ closePc = "idle"
  /\ closeVisited = {}
  /\ executions = {}
  /\ cbDeletes = {}
  /\ nextHandle = 1
  /\ queue = {}
  /\ deleteLog = {}
  /\ batchLog = {}
  /\ deleteFailures = {}
  /\ partialFailures = {}
  /\ thrown = NoError
  /\ emits = {}
  /\ signalled = {}
  /\ outcome = "none"
  /\ closeSnapshot = <<>>
  /\ closeDeletes = <<>>
  /\ cbOverlap = FALSE

FnNext ==
  \/ ConvertInterval
  \/ Transform000
  \/ Transform001
  \/ Transform002
  \/ BuildReceiveParams
  \/ GetQueues
  \/ ListQueuesSettles

FnSpec == FnInit /\ [][FnNext]_vars

\* the third specification: part_000 alone, with the scheduling the runtime
\* gives it: trigger() runs to its end, an armed timer fires, every awaited
\* call settles, a resumed loop goes on, and every execution started by emit
\* finishes. The calls the host is free to make or not (manualTriggerFunction,
\* closeFunction) carry no fairness.
LiveInit == Init /\ variant = "manual"

LiveNext ==
  \/ TriggerManual
  \/ TimerFires
  \/ ManualTriggerFunction
  \/ \E s \in Slots : ReceiveResolves(s)
  \/ \E s \in Slots : ReceiveRejects(s)
  \/ \E s \in Slots, ok \in BOOLEAN : InlineDeleteSettles(s, ok)
  \/ \E s \in Slots : NextMessage(s)
  \/ \E e \in executions, ok \in BOOLEAN : FinishExecution(e, ok)
  \/ \E d \in cbDeletes, ok \in BOOLEAN : CallbackDeleteSettles(d, ok)
  \/ CloseFunction
  \/ \E ok \in BOOLEAN : CloseDeleteSettles(ok)

Fairness ==
  /\ WF_vars(TriggerManual)
  /\ WF_vars(TimerFires)
  /\ \A s \in Slots :
       /\ WF_vars(ReceiveResolves(s) \/ ReceiveRejects(s))
       /\ WF_vars(\E ok \in BOOLEAN : InlineDeleteSettles(s, ok))
       /\ WF_vars(NextMessage(s))
  /\ \A h \in 1..MaxDeliveries :
       WF_vars(\E e \in executions, ok \in BOOLEAN :
                 e.receiptHandle = h /\ FinishExecution(e, ok))
  /\ WF_vars(\E d \in cbDeletes, ok \in BOOLEAN : CallbackDeleteSettles(d, ok))
  /\ WF_vars(\E ok \in BOOLEAN : CloseDeleteSettles(ok))

LiveSpec == LiveInit /\ [][LiveNext]_vars /\ Fairness



\* ================================================================ claims
Deferred ==
  variant = "manual" /\ acknowledge \in {"executionFinishes", "executionFinishesSuccessfully"}
Immediate ==
  \/ variant = "manual" /\ acknowledge = "immediately"
  \/ variant = "poll" /\ autoDelete
InProgress == {s \in Slots : cycles[s].pc # "idle"}
\* a record with receipt handle h was handed to the host
Handed(h) == \E e \in emits : \E i \in 1..Len(e) : e[i].receiptHandle = h

\* C1 (as stated): under a deferred policy no DeleteMessage request is sent for
\* a message before the configured completion signal of that message fired.
C1_NoDeleteBeforeSignal ==
  Deferred => \A d \in deleteLog : d.messageId \in signalled

\* C1 (amended): under a deferred policy every DeleteMessage request that is
\* not sent by closeFunction is sent for a message whose configured completion
\* signal has fired; closeFunction deletes the tracked messages without it.
C1_NoDeleteBeforeSignalExceptClose ==
  Deferred => \A d \in deleteLog : d.by # "close" => d.messageId \in signalled

C1_Witness ==
  /\ Deferred
  /\ \E d \in deleteLog : d.by = "callback" /\ d.messageId \in signalled
  /\ executions # {}

C3_DeleteFailureKeepsRecords ==
  variant = "interval" =>
    \A r \in batchLog :
      \/ \E s \in Slots : cycles[s].pc = "deleting" /\ DeleteRequest(cycles[s].batch) = r
      \/ \E e \in emits :
           /\ Len(e) = Len(r.entries)
           /\ \A i \in 1..Len(e) : e[i].receiptHandle = r.entries[i].ReceiptHandle

\* C4: in part_000 in active mode, while closeFunction has not been called a
\* poll cycle is running or the timer of the next one is armed, after failed
\* cycles too; a receive failure is reported through emitError, and suppressed
\* only when the shutdown was already requested.
C4_PollingSurvivesReceiveFailure ==
  /\ []((variant = "manual" /\ mode = "trigger" /\ phase = "active" /\ ~closeRequested)
          => (pollTimer \/ InProgress # {}))
  /\ []((variant = "manual" /\ outcome = "suppressed") => closeRequested)
  /\ [][variant = "manual" =>
          \A s \in Slots :
            (cycles[s].pc = "receiving" /\ cycles'[s].pc = "idle" /\ outcome' # "done")
              => /\ outcome' = IF closeRequested THEN "suppressed" ELSE "emitError"
                 /\ isPolling' = FALSE
                 /\ (mode = "trigger" /\ ~closeRequested) => pollTimer']_vars

C4_Witness ==
  /\ variant = "manual" /\ mode = "trigger" /\ ~closeRequested
  /\ outcome = "emitError" /\ pollTimer

\* C5: in part_002, while the trigger has not been closed, a cycle is running
\* or the timer of the next one is armed, after a failed receive or delete too.
C5_LoopSurvivesFailure ==
  (variant = "interval" /\ phase = "active" /\ running)
    => (intervalObj \/ InProgress # {})

\* C6: when closeFunction of part_000 has completed, the in-flight map is empty,
\* and if no completion callback ran meanwhile it has sent exactly one
\* DeleteMessage per entry that was tracked when it was called, with the queue
\* URL and receipt handle of that entry, whatever the outcome of each delete.
C6_CloseDeletesEveryTrackedEntry ==
  (variant = "manual" /\ closePc = "done") =>
    /\ activeMessages = <<>>
    /\ ~cbOverlap =>
         /\ Len(closeDeletes) = Len(closeSnapshot)
         /\ \A i \in 1..Len(closeSnapshot) :
              /\ closeDeletes[i].queueUrl = closeSnapshot[i].queueUrl
              /\ closeDeletes[i].receiptHandle = closeSnapshot[i].receiptHandle

C6_Witness ==
  /\ variant = "manual" /\ closePc = "done" /\ ~cbOverlap
  /\ Len(closeSnapshot) = 2 /\ Len(closeDeletes) = 2
  /\ closeSnapshot[1].receiptHandle \in deleteFailures

\* C7: in part_000 with a positive parallelMessages and a deferred policy the
\* in-flight map never holds more than parallelMessages entries.
C7_CapNeverExceeded ==
  (Deferred /\ parallelMessages > 0) => Len(activeMessages) <= parallelMessages

\* C8: a pollForMessages invocation of part_000 that is not refused and finds
\* parallelMessages # -1 and at least parallelMessages entries in the map sends
\* no receive, emits nothing and sends no delete; with parallelMessages = -1
\* such an invocation always sends the receive.
C8_CapSkipsTheCycle ==
  [][((TimerFires \/ ManualTriggerFunction \/ TriggerManual)
        /\ phase' = "active" /\ ~closeRequested /\ ~isPolling
        /\ (mode = "manual" => phase = "active"))
       => IF parallelMessages # -1 /\ Len(activeMessages) >= parallelMessages
            THEN /\ cycles' = cycles /\ emits' = emits /\ deleteLog' = deleteLog
                 /\ outcome' = "skipped" /\ isPolling' = FALSE
            ELSE \E s \in Slots : cycles[s].pc = "idle" /\ cycles'[s].pc = "receiving"]_vars

C8_Witness ==
  /\ variant = "manual" /\ outcome = "skipped" /\ ~closeRequested
  /\ parallelMessages > 0 /\ Len(activeMessages) >= parallelMessages
  /\ InProgress = {}

\* C9: in part_000 and part_002 at most one cycle is in progress at any time, so
\* at most one receive call is outstanding; a pollForMessages invocation that
\* arrives while a cycle is running starts nothing.
C9_NoOverlappingCycles ==
  /\ [](variant \in {"manual", "interval"} => Cardinality(InProgress) <= 1)
  /\ [][(ManualTriggerFunction /\ InProgress # {}) => cycles' = cycles]_vars

C9_Witness ==
  /\ variant = "manual" /\ mode = "manual" /\ ~closeRequested
  /\ outcome = "refused"
  /\ \E s \in Slots : cycles[s].pc = "receiving"

\* C10: once closeFunction has been called no receive call is started and no
\* timer is armed: in part_000 later invocations return at once, in part_002 the
\* pending timer is cleared and a cycle that was running does not arm it again.
C10_NoCycleAfterClose ==
  /\ []((variant = "interval" /\ closePc = "done") => ~intervalObj)
  /\ [][(closeRequested \/ (variant = "interval" /\ closePc = "done")) =>
          /\ \A s \in Slots : cycles'[s].pc = "receiving" => cycles[s].pc = "receiving"
          /\ pollTimer' => pollTimer
          /\ intervalObj' => intervalObj]_vars

C10_Witness ==
  /\ variant = "interval" /\ closePc = "done" /\ ~running /\ ~intervalObj
  /\ \E s \in Slots : cycles[s].pc = "deleting"

\* C11: in part_000 under a deferred policy, whenever the completion signal of
\* an execution fires while its message is tracked, that firing sends exactly
\* one DeleteMessage request, with the queue URL and the receipt handle stored
\* in the tracking entry of the message; a signal for a message that is not
\* tracked (any more) sends no request, and neither does an execution whose
\* configured signal does not fire.
C11_OneDeletePerSignal ==
  [][\A e \in executions, ok \in BOOLEAN :
       (Deferred /\ FinishExecution(e, ok)) =>
         LET fired == acknowledge = "executionFinishes" \/ ok
             at == {i \in 1..Len(activeMessages) :
                      activeMessages[i].messageId = e.messageId}
         IN IF fired /\ at # {}
              THEN \E i \in at : \E d \in deleteLog' \ deleteLog :
                     /\ deleteLog' \ deleteLog = {d}
                     /\ cbDeletes' \ cbDeletes = {d}
                     /\ d.messageId = e.messageId
                     /\ d.queueUrl = activeMessages[i].queueUrl
                     /\ d.receiptHandle = activeMessages[i].receiptHandle
              ELSE deleteLog' = deleteLog /\ cbDeletes' = cbDeletes]_vars

\* the callback of the first delivery of a message ran after its redelivery
\* replaced the entry: the request carries the stored (second) receipt handle
C11_Witness ==
  /\ Deferred
  /\ \E d \in cbDeletes : d.by = "callback" /\ d.exec # d.receiptHandle
  /\ Len(activeMessages) = 1

\* C12: in part_000 an entry enters the in-flight map exactly in the step that
\* hands its message to the host under a deferred policy (under the immediate
\* policy the map stays empty); an entry leaves the map only when a DeleteMessage
\* request sent by the completion callback of its message resolves, or when
\* closeFunction clears the whole map at its end; a rejected request of a
\* completion callback leaves the map as it was.
C12_EntryLifecycle ==
  /\ []((variant = "manual" /\ ~Deferred) => activeMessages = <<>>)
  /\ [][variant = "manual" =>
          LET has(am, id) == \E i \in 1..Len(am) : am[i].messageId = id
              ids == {activeMessages[i].messageId : i \in 1..Len(activeMessages)}
              ids2 == {activeMessages'[i].messageId : i \in 1..Len(activeMessages')}
          IN
          /\ \A i \in 1..Len(activeMessages') :
               (\A j \in 1..Len(activeMessages) : activeMessages[j] # activeMessages'[i])
                 => /\ Deferred
                    /\ emits' \ emits =
                         {<<[messageId |-> activeMessages'[i].messageId,
                             receiptHandle |-> activeMessages'[i].receiptHandle]>>}
          /\ (Deferred /\ emits' # emits) =>
               \E e \in emits' \ emits :
                 /\ emits' \ emits = {e} /\ Len(e) = 1
                 /\ \E i \in 1..Len(activeMessages') :
                      /\ activeMessages'[i].messageId = e[1].messageId
                      /\ activeMessages'[i].receiptHandle = e[1].receiptHandle
                      /\ activeMessages'[i].queueUrl = queueUrl
          /\ \A id \in ids \ ids2 :
               \/ \E d \in cbDeletes : d.messageId = id /\ CallbackDeleteSettles(d, TRUE)
               \/ closePc # "done" /\ closePc' = "done" /\ activeMessages' = <<>>
          /\ \A d \in cbDeletes :
               CallbackDeleteSettles(d, FALSE) => activeMessages' = activeMessages]_vars

\* a deferred delete was rejected and the entry of its message is still tracked
C12_Witness ==
  /\ Deferred /\ closePc = "idle" /\ cbDeletes = {}
  /\ \E i \in 1..Len(activeMessages) :
       /\ activeMessages[i].receiptHandle \in deleteFailures
       /\ activeMessages[i].messageId \in signalled

\* the receipt handles of the fetches whose cycle is still in progress
InFlight ==
  UNION {{cycles[s].batch[i].ReceiptHandle : i \in 1..Len(cycles[s].batch)} : s \in InProgress}
\* the number of records with receipt handle h that were handed to the host
TimesHanded(h) ==
  Cardinality({p \in {<<e, i>> : e \in emits, i \in 1..MaxBatch + 1} :
                 p[2] <= Len(p[1]) /\ p[1][p[2]].receiptHandle = h})

\* C13: in the three variants, every message that a ReceiveMessage call
\* returned has exactly one record handed to the host once the cycle of its
\* fetch has ended, whatever the delete outcomes and whenever closeFunction ran.
C13_OneRecordPerMessage ==
  \A h \in 1..(nextHandle - 1) : h \in InFlight \/ TimesHanded(h) = 1

\* C14: in the three variants a ReceiveMessage call that resolves without
\* messages ends the cycle with nothing handed to the host, no delete request
\* and no error: poll() returns, the trigger variants arm their next timer.
C14_EmptyFetchIsQuiet ==
  [][\A s \in Slots :
       ((ReceiveResolves(s) \/ PollReceiveResolves(s) \/ IntervalReceiveResolves(s))
          /\ nextHandle' = nextHandle)
         => /\ emits' = emits /\ deleteLog' = deleteLog /\ batchLog' = batchLog
            /\ cycles'[s].pc = "idle"
            /\ outcome' = IF variant = "manual" THEN "done" ELSE "empty"
            /\ (variant = "interval" /\ running) => intervalObj'
            /\ (variant = "manual" /\ mode = "trigger" /\ ~closeRequested) => pollTimer']_vars

\* an empty fetch that followed a fetch with messages
C14_Witness ==
  /\ variant \in {"poll", "interval"} /\ outcome = "empty" /\ InProgress = {}
  /\ nextHandle = 2 /\ Handed(1)

\* C15: in part_002 with deletion enabled, a receive that resolves with N > 0
\* messages is followed at once by exactly one delete request to the queue: a
\* DeleteMessage with the receipt handle of the message for N = 1, a
\* DeleteMessageBatch for N > 1 whose entry i carries the receipt handle of the
\* i-th message and Id msg<i>; no other step of the cycle sends a delete
\* request, and the cycle ends when that request settles.
C15_OneDeleteRequestPerCycle ==
  [][(variant = "interval" /\ deleteMessages # "false") =>
       /\ \A s \in Slots :
            /\ (cycles[s].pc = "receiving" /\ nextHandle' > nextHandle) =>
                 LET n == nextHandle' - nextHandle IN
                 /\ cycles'[s].pc = "deleting"
                 /\ \E r \in batchLog' \ batchLog :
                      /\ batchLog' \ batchLog = {r}
                      /\ r.queueUrl = queueUrl
                      /\ r.kind = IF n = 1 THEN "DeleteMessage" ELSE "DeleteMessageBatch"
                      /\ Len(r.entries) = n
                      /\ \A i \in 1..n :
                           /\ r.entries[i].ReceiptHandle = nextHandle + i - 1
                           /\ cycles'[s].batch[i].ReceiptHandle = nextHandle + i - 1
                      /\ n > 1 => \A i, j \in 1..n :
                           /\ r.entries[i].Id = i
                           /\ i # j => r.entries[i].Id # r.entries[j].Id
            /\ (cycles[s].pc = "deleting" /\ cycles'[s].pc # "deleting") =>
                 cycles'[s].pc = "idle"
       /\ (nextHandle' = nextHandle) => batchLog' = batchLog
       /\ deleteLog' = deleteLog]_vars

\* a fetch of two messages was deleted with one DeleteMessageBatch of two
\* entries and its cycle has ended
C15_Witness ==
  /\ variant = "interval" /\ InProgress = {} /\ outcome = "done"
  /\ \E r \in batchLog : r.kind = "DeleteMessageBatch" /\ Len(r.entries) = 2

\* C16: under the immediate policy of part_001 and part_000 no single
\* DeleteMessage request is sent for a message of a fetch that returned more
\* than one message (such a fetch is deleted with one batch request).
C16_BatchDeleteForManyMessages ==
  Immediate =>
    \A s \in Slots : Len(cycles[s].batch) > 1 =>
      \A d \in deleteLog : \A i \in 1..Len(cycles[s].batch) :
        d.receiptHandle # cycles[s].batch[i].ReceiptHandle

\* C17: in part_002, every entry that the Failed list of a resolved
\* DeleteMessageBatch call names is surfaced as a delete failure, and the
\* records of its fetch are emitted.
C17_PartialFailureSurfaced ==
  variant = "interval" =>
    \A h \in partialFailures : h \in deleteFailures /\ Handed(h)

\* C18: with deletion disabled (part_001 autoDelete = false, part_002
\* options.deleteMessages = false) no delete request of any kind is ever sent
\* and every message of every fetch is handed to the host in the step that
\* receives it; in part_002 every other value of options.deleteMessages,
\* unset included, makes a fetch with messages send a delete request.
C18_DeletionDisabled ==
  /\ []((\/ variant = "poll" /\ ~autoDelete
         \/ variant = "interval" /\ deleteMessages = "false")
          => /\ deleteLog = {} /\ batchLog = {}
             /\ \A h \in 1..(nextHandle - 1) : TimesHanded(h) = 1)
  /\ [][(variant = "interval" /\ deleteMessages \in {"unset", "true"}
           /\ nextHandle' > nextHandle)
          => batchLog' # batchLog]_vars

\* two fetches went to the host with deletion disabled in part_002
C18_Witness ==
  /\ variant = "interval" /\ deleteMessages = "false"
  /\ nextHandle = 3 /\ Handed(1) /\ Handed(2) /\ batchLog = {}

\* C19: an invocation of poll() of part_001 sends one ReceiveMessage request
\* and never a second one; when the request rejects with an error of message
\* err, poll() throws a NodeOperationError of message 'Failed to receive
\* messages from SQS queue: ' followed by err, the invocation is over, and it
\* has returned no record and sent no delete request.
C19_PollReceiveFailure ==
  [][variant = "poll" =>
       /\ Poll => Cardinality({s \in Slots : cycles'[s].pc = "receiving"}) = 1
       /\ \A s \in Slots :
            /\ cycles'[s].pc = "receiving" => cycles[s].pc \in {"idle", "receiving"}
            /\ \A err \in Errors :
                 PollReceiveRejects(s, err) =>
                   /\ thrown' = [type |-> "NodeOperationError",
                                 message |-> <<"Failed to receive messages from SQS queue: ",
                                               err>>]
                   /\ outcome' = "thrown"
                   /\ cycles'[s].pc = "idle"
                   /\ emits' = emits /\ deleteLog' = deleteLog /\ batchLog' = batchLog]_vars

\* a poll() that followed a successful one has thrown
C19_Witness ==
  /\ variant = "poll" /\ outcome = "thrown" /\ InProgress = {}
  /\ thrown.type = "NodeOperationError" /\ thrown.message[2] = "NetworkingError"
  /\ nextHandle = 2 /\ Handed(1)

\* C20: trigger() rejects an invalid configuration before it sends any request
\* and before it starts a timer or a polling loop: in part_002 interval <= 0
\* and a waitTimeSeconds outside 0..20 give a NodeOperationError and an
\* interval of more than 2147483647 ms a NodeApiError, in part_000 a
\* parallelMessages that is 0, below -1 or NaN gives a NodeOperationError; a
\* valid configuration is not rejected; after a rejection nothing is received,
\* deleted or emitted and nothing is scheduled.
C20_ConfigurationErrorsFirst ==
  /\ []((variant = "interval" /\ phase # "created") =>
          LET opError == \/ interval <= 0
                         \/ /\ waitTimeSeconds # <<>>
                            /\ (waitTimeSeconds[1] < 0 \/ waitTimeSeconds[1] > 20)
              apiError == /\ ~opError
                          /\ interval > MaxTimeout \div (UnitFactor(unit) * 1000)
          IN /\ opError => phase = "rejected" /\ outcome = "NodeOperationError"
             /\ apiError => phase = "rejected" /\ outcome = "NodeApiError"
             /\ ~(opError \/ apiError) => phase = "active")
  /\ []((variant = "manual" /\ phase # "created") =>
          IF parallelMessages = NaN \/ parallelMessages = 0 \/ parallelMessages < -1
            THEN phase = "rejected" /\ outcome = "NodeOperationError"
            ELSE phase = "active")
  /\ [](phase = "rejected" =>
          /\ InProgress = {} /\ nextHandle = 1 /\ queue = {}
          /\ emits = {} /\ deleteLog = {} /\ batchLog = {}
          /\ ~pollTimer /\ ~isPolling /\ ~running /\ ~intervalObj)
  /\ [][phase = "rejected" => UNCHANGED vars]_vars

\* trigger() of part_000 has rejected a NaN parallelMessages
C20_Witness ==
  /\ variant = "manual" /\ phase = "rejected" /\ parallelMessages = NaN
  /\ outcome = "NodeOperationError"

\* the functions that build the records of a fetch, once applied
Transformed == fn \in {"processMessage", "poll", "executeTrigger"} /\ res # <<>>

\* C21: trigger() of part_002, for a positive interval and a valid
\* waitTimeSeconds, accepts exactly when interval times the milliseconds of the
\* unit (1000, 60000, 3600000) is at most 2147483647, and the delay of the
\* timer is then that product, within 1..2147483647; otherwise it rejects with
\* NodeApiError.  (The bound is stated on the interval, product <= 2147483647
\* iff interval <= 2147483647 \div milliseconds, so that no product beyond the
\* integers of the checker is computed.)
C21_IntervalConversion ==
  (fn = "trigger" /\ res # <<>>) =>
    LET w == arg.waitTimeSeconds
        ms == CASE arg.unit = "seconds" -> 1000
                [] arg.unit = "minutes" -> 60 * 1000
                [] arg.unit = "hours" -> 3600 * 1000
    IN (arg.interval > 0 /\ (w = <<>> \/ (w[1] >= 0 /\ w[1] <= 20))) =>
         IF arg.interval <= 2147483647 \div ms
           THEN /\ res.error = "none"
                /\ res.delay = arg.interval * ms
                /\ res.delay >= 1 /\ res.delay <= 2147483647
           ELSE res.error = "NodeApiError"

\* 2147483 seconds is accepted with a delay of 2147483000 ms
C21_Witness ==
  /\ fn = "trigger" /\ res # <<>>
  /\ arg.interval = 2147483 /\ arg.unit = "seconds" /\ arg.waitTimeSeconds = <<20>>
  /\ res.error = "none" /\ res.delay = 2147483000

\* C22: in the three variants a fetch with a message whose body is a non-empty
\* text that is not valid JSON raises no error and yields one record per
\* message; the record of that message has the raw body as body and, as
\* parsedBody, null in part_000 and part_001 and the raw body in part_002; a
\* message of the same fetch with a valid body has its decoded value.
C22_InvalidJsonFallback ==
  Transformed =>
    /\ res.threw = FALSE
    /\ Len(res.records) = Len(arg)
    /\ \A i \in 1..Len(arg) :
         /\ arg[i].Body = Str("not json") =>
              /\ res.records[i].body = Str("not json")
              /\ res.records[i].parsedBody =
                   IF fn = "executeTrigger" THEN Str("not json") ELSE Null
         /\ arg[i].Body = Str("{ \"a\" : 1 }") =>
              res.records[i].parsedBody = Obj("{\"a\":1}")

\* part_002 kept the raw body of an invalid first message and decoded the
\* body of the second one
C22_Witness ==
  /\ fn = "executeTrigger" /\ res # <<>>
  /\ arg[1].Body = Str("not json") /\ arg[2].Body = Str("{ \"a\" : 1 }")
  /\ res.records[1].parsedBody = Str("not json")
  /\ res.records[2].parsedBody = Obj("{\"a\":1}")

\* C23: in the three variants a message whose body is absent or the empty
\* string has parsedBody {} (not null, not the raw body), and the body of its
\* record is the absent or empty value of the message.
C23_AbsentBodyIsEmptyObject ==
  Transformed =>
    \A i \in 1..Len(arg) :
      arg[i].Body \in {Undefined, Str("")} =>
        /\ res.records[i].parsedBody = EmptyObject
        /\ res.records[i].body = arg[i].Body

\* part_002 built {} for an absent body and for an empty one
C23_Witness ==
  /\ fn = "executeTrigger" /\ res # <<>>
  /\ arg[1].Body = Undefined /\ arg[2].Body = Str("")
  /\ res.records[1].parsedBody = EmptyObject /\ res.records[1].body = Undefined
  /\ res.records[2].parsedBody = EmptyObject /\ res.records[2].body = Str("")

\* C24: in the three variants the record of a message has messageId, body,
\* receiptHandle and md5OfBody equal to MessageId, Body, ReceiptHandle and
\* MD5OfBody of the message, attributes and messageAttributes equal to its maps
\* or {} when the map is absent, and for a body that is valid JSON parsedBody
\* equal to the value JSON.parse decodes.
C24_RecordFields ==
  Transformed =>
    \A i \in 1..Len(arg) :
      LET m == arg[i]
          r == res.records[i]
      IN /\ r.messageId = m.MessageId /\ r.body = m.Body
         /\ r.receiptHandle = m.ReceiptHandle /\ r.md5OfBody = m.MD5OfBody
         /\ r.attributes = IF m.Attributes = Undefined THEN Obj("{}") ELSE m.Attributes
         /\ r.messageAttributes =
              IF m.MessageAttributes = Undefined THEN Obj("{}") ELSE m.MessageAttributes
         /\ r.attributes # Undefined /\ r.messageAttributes # Undefined
         /\ (m.Body.t = "string" /\ ~JsonParse(m.Body).threw) =>
              r.parsedBody = JsonParse(m.Body).value

\* part_001 filled an absent attribute map with {}, kept a present one and
\* decoded a JSON body
C24_Witness ==
  /\ fn = "poll" /\ res # <<>>
  /\ arg[1].Attributes = Undefined /\ arg[1].MessageAttributes # Undefined
  /\ arg[1].Body = Str("{\"a\":1}")
  /\ res.records[1].attributes = EmptyObject
  /\ res.records[1].messageAttributes = arg[1].MessageAttributes
  /\ res.records[1].parsedBody = Obj("{\"a\":1}")

\* C25: in a cycle of part_001 with autoDelete, a fetch with messages starts
\* with the delete of its first message; while the delete of message k is
\* awaited the records pushed are those of messages 1..k in fetch order and the
\* DeleteMessage requests sent for the fetch are one per message 1..k, to the
\* configured queue URL with the receipt handle of the message; the settling of
\* delete k is followed by the transform and delete of message k + 1 alone, and
\* poll() returns the records of all messages in fetch order after the last one.
C25_PollOrder ==
  /\ []((variant = "poll" /\ autoDelete) =>
          \A s \in Slots : cycles[s].pc = "deleting" =>
            LET b == cycles[s].batch
                k == cycles[s].idx
            IN /\ k >= 1 /\ k <= Len(b)
               /\ Len(cycles[s].ret) = k
               /\ \A j \in 1..k :
                    cycles[s].ret[j] = [messageId |-> b[j].MessageId,
                                        receiptHandle |-> b[j].ReceiptHandle]
               /\ \A j \in 1..Len(b) :
                    LET sent == {d \in deleteLog : d.receiptHandle = b[j].ReceiptHandle}
                    IN IF j <= k
                         THEN /\ Cardinality(sent) = 1
                              /\ \A d \in sent : d.queueUrl = queueUrl
                         ELSE sent = {})
  /\ [][(variant = "poll" /\ autoDelete) =>
          \A s \in Slots :
            /\ (cycles[s].pc = "receiving" /\ nextHandle' > nextHandle) =>
                 cycles'[s].pc = "deleting" /\ cycles'[s].idx = 1
            /\ (cycles[s].pc = "deleting" /\ cycles'[s].pc = "deleting") =>
                 /\ cycles'[s].batch = cycles[s].batch
                 /\ cycles'[s].idx = cycles[s].idx + 1
            /\ (cycles[s].pc = "deleting" /\ cycles'[s].pc = "idle") =>
                 /\ cycles[s].idx = Len(cycles[s].batch)
                 /\ deleteLog' = deleteLog
                 /\ emits' = emits \cup
                      {[j \in 1..Len(cycles[s].batch) |->
                          [messageId |-> cycles[s].batch[j].MessageId,
                           receiptHandle |-> cycles[s].batch[j].ReceiptHandle]]}]_vars

\* poll() returned two records after two deletes, the first of which failed
C25_Witness ==
  /\ variant = "poll" /\ autoDelete /\ InProgress = {} /\ outcome = "done"
  /\ \E e \in emits : Len(e) = 2 /\ e[1].receiptHandle = 1 /\ e[2].receiptHandle = 2
  /\ 1 \in deleteFailures /\ Cardinality(deleteLog) = 2

\* C26: every hand-off to the host carries one record: a fetch of N messages
\* is handed over as N hand-offs.
C26_OneRecordPerHandOff ==
  \A e \in emits : Len(e) = 1

\* the text without its spaces, and the parts joined with commas
NoSpaces(str) == SelectSeq(str, LAMBDA c : c # " ")
RECURSIVE Join(_)
Join(parts) ==
  IF Len(parts) = 1 THEN parts[1] ELSE parts[1] \o <<",">> \o Join(Tail(parts))
\* names is the list of the comma-separated names of text, each trimmed (the
\* names of the model have no inner spaces)
SplitTrimmed(names, text) ==
  /\ Len(names) = Len(SelectSeq(text, LAMBDA c : c = ",")) + 1
  /\ Join(names) = NoSpaces(text)

\* C27: getQueues of part_002 returns, for a ListQueues response with queue
\* URLs, one option per URL in response order, with the URL as value and the
\* part of the URL after its last '/' as name; it returns [] when QueueUrls is
\* empty or absent and throws NodeApiError when ListQueues fails; the client
\* is not destroyed while the call is awaited and has been destroyed exactly
\* once when getQueues has settled.
C27_GetQueues ==
  (fn = "getQueues" /\ res # <<>>) =>
    IF res.pc = "awaiting" THEN res.destroyed = 0
    ELSE
      /\ res.destroyed = 1
      /\ IF arg.kind = "rejects"
           THEN res.pc = "thrown" /\ res.error = "NodeApiError"
           ELSE /\ res.pc = "returned" /\ res.error = "none"
                /\ IF arg.QueueUrls = <<>> THEN res.options = <<>>
                   ELSE LET urls == arg.QueueUrls[1] IN
                        /\ Len(res.options) = Len(urls)
                        /\ \A i \in 1..Len(urls) :
                             LET name == res.options[i].name
                                 cut == Len(urls[i]) - Len(name)
                             IN /\ res.options[i].value = urls[i]
                                /\ cut >= 0
                                /\ name = SubSeq(urls[i], cut + 1, Len(urls[i]))
                                /\ \A j \in 1..Len(name) : name[j] # "/"
                                /\ cut > 0 => urls[i][cut] = "/"

\* two queues were listed, in response order, and the client was destroyed
C27_Witness ==
  /\ fn = "getQueues" /\ res # <<>> /\ res.pc = "returned" /\ res.destroyed = 1
  /\ Len(res.options) = 2
  /\ res.options[1].name = <<"b", "c">> /\ res.options[2].name = <<"a">>

\* what C28 says of every field but MessageAttributeNames
ReceiveParamsBase ==
  /\ res.QueueUrl = arg.queueUrl
  /\ res.MaxNumberOfMessages = arg.maxNumberOfMessages
  /\ res.VisibilityTimeout = arg.visibilityTimeout
  /\ res.WaitTimeSeconds = arg.waitTimeSeconds
  /\ res.MessageAttributeNames # <<>> <=> arg.includeMessageAttributes
  /\ IF arg.attributeNames # <<>> /\ arg.attributeNames[1] # <<>>
       THEN res.AttributeNames = arg.attributeNames
       ELSE res.AttributeNames = <<>>

\* C28 (as stated): the request of part_001 carries the four configured
\* values; MessageAttributeNames is present exactly when
\* includeMessageAttributes is true, is ['All'] when
\* options.messageAttributeNames is unset or 'All' and otherwise the list of
\* its comma-separated names, trimmed; AttributeNames is present exactly when
\* options.attributeNames is a non-empty list, and is that list.
C28_ReceiveParams ==
  (fn = "receiveParams" /\ res # <<>>) =>
    /\ ReceiveParamsBase
    /\ arg.includeMessageAttributes =>
         IF arg.messageAttributeNames = <<>> \/ arg.messageAttributeNames = <<All>>
           THEN res.MessageAttributeNames = << <<All>> >>
           ELSE SplitTrimmed(res.MessageAttributeNames[1], arg.messageAttributeNames[1])

\* C28 (amended): as above, with MessageAttributeNames equal to ['All'] also
\* when options.messageAttributeNames is the empty string.
C28_ReceiveParamsEmptyIsAll ==
  (fn = "receiveParams" /\ res # <<>>) =>
    /\ ReceiveParamsBase
    /\ arg.includeMessageAttributes =>
         IF \/ arg.messageAttributeNames = <<>>
            \/ arg.messageAttributeNames = << <<>> >>
            \/ arg.messageAttributeNames = <<All>>
           THEN res.MessageAttributeNames = << <<All>> >>
           ELSE SplitTrimmed(res.MessageAttributeNames[1], arg.messageAttributeNames[1])

\* the names ' a , b' were split and trimmed, the attribute names passed on
C28_Witness ==
  /\ fn = "receiveParams" /\ res # <<>>
  /\ arg.messageAttributeNames = << <<" ", "a", " ", ",", " ", "b">> >>
  /\ res.MessageAttributeNames = << << <<"a">>, <<"b">> >> >>
  /\ res.AttributeNames = << <<"SentTimestamp", "ApproximateReceiveCount">> >>

\* C29: in part_000 under a deferred policy every tracked entry belongs to a
\* message whose record was emitted, every DeleteMessage request, from a
\* completion callback or from closeFunction, is sent for a tracked entry, and
\* so no request is sent for a message before its record was emitted.
C29_HandedBeforeDelete ==
  /\ [](Deferred =>
          /\ \A i \in 1..Len(activeMessages) : Handed(activeMessages[i].receiptHandle)
          /\ \A d \in deleteLog :
               /\ Handed(d.receiptHandle)
               /\ \E e \in emits : e[1].messageId = d.messageId)
  /\ [][Deferred =>
          \A d \in deleteLog' \ deleteLog :
            \E i \in 1..Len(activeMessages) :
              /\ activeMessages[i].messageId = d.messageId
              /\ activeMessages[i].receiptHandle = d.receiptHandle]_vars

\* closeFunction is deleting a message whose execution has not finished
C29_Witness ==
  /\ Deferred /\ closePc = "awaiting" /\ signalled = {}
  /\ \E d \in deleteLog : d.by = "close" /\ Handed(d.receiptHandle)

\* C30: whenever a record has been handed to the host under a policy that
\* deletes at fetch time, the delete request of its message has been sent and
\* has settled: in part_000 ('immediately') the DeleteMessage of the message,
\* in part_001 (autoDelete) every delete of the cycle, in part_002 (deletion
\* enabled) the single or batch delete of the fetch.
C30_DeleteSettledBeforeHandOff ==
  \A h \in 1..(nextHandle - 1) :
    Handed(h) =>
      /\ (variant = "manual" /\ acknowledge = "immediately") =>
           /\ \E d \in deleteLog : d.receiptHandle = h /\ d.by = "inline"
           /\ \A s \in Slots :
                cycles[s].pc = "deleting" => cycles[s].batch[cycles[s].idx].ReceiptHandle # h
      /\ (variant = "poll" /\ autoDelete) =>
           /\ \E d \in deleteLog : d.receiptHandle = h /\ d.by = "poll"
           /\ h \notin InFlight
      /\ (variant = "interval" /\ deleteMessages # "false") =>
           /\ \E r \in batchLog : \E i \in 1..Len(r.entries) : r.entries[i].ReceiptHandle = h
           /\ h \notin InFlight

\* part_002 emitted a fetch of two messages after its batch delete resolved
\* with a failed entry
C30_Witness ==
  /\ variant = "interval" /\ deleteMessages = "unset" /\ InProgress = {}
  /\ Handed(1) /\ Handed(2) /\ partialFailures # {}

\* C31: in part_000 the three acknowledgment policies are never mixed for a
\* message. Under 'immediately' a record is emitted only after the inline
\* DeleteMessage of its message was sent, no entry is ever tracked, no
\* completion callback is registered and neither a callback nor closeFunction
\* sends a delete. Under 'executionFinishes' no inline delete is sent and every
\* emitted record is tracked and its execution carries the delete closure as
\* executionFinished only; under 'executionFinishesSuccessfully' likewise, as
\* executionFinishedSuccessfully only.
C31_PoliciesNotMixed ==
  /\ []((variant = "manual" /\ acknowledge = "immediately") =>
          /\ activeMessages = <<>> /\ executions = {} /\ cbDeletes = {}
          /\ closeDeletes = <<>>
          /\ \A d \in deleteLog : d.by = "inline")
  /\ [](Deferred =>
          /\ \A d \in deleteLog : d.by # "inline"
          /\ \A s \in Slots : cycles[s].pc # "deleting"
          /\ \A e \in executions :
               e.callbacks = IF acknowledge = "executionFinishes"
                               THEN {"executionFinished"}
                               ELSE {"executionFinishedSuccessfully"})
  /\ [][variant = "manual" =>
          \A r \in emits' \ emits :
            IF acknowledge = "immediately"
              THEN /\ \E d \in deleteLog :
                        d.by = "inline" /\ d.receiptHandle = r[1].receiptHandle
                   /\ executions' = executions
                   /\ activeMessages' = activeMessages
              ELSE /\ \E e \in executions' \ executions :
                        e.receiptHandle = r[1].receiptHandle
                   /\ \E i \in 1..Len(activeMessages') :
                        /\ activeMessages'[i].messageId = r[1].messageId
                        /\ activeMessages'[i].receiptHandle = r[1].receiptHandle
                   /\ deleteLog' = deleteLog]_vars

\* under 'executionFinishesSuccessfully' a failed execution has finished, its
\* entry is still tracked and no delete was sent
C31_Witness ==
  /\ variant = "manual" /\ acknowledge = "executionFinishesSuccessfully"
  /\ emits # {} /\ executions = {} /\ signalled = {} /\ deleteLog = {}
  /\ Len(activeMessages) = 1 /\ closePc = "idle"

\* C32: in part_000 with getMode() = 'manual', trigger() starts no polling
\* loop: it sends no ReceiveMessage, every cycle is started by a call of
\* manualTriggerFunction, a cycle sends one ReceiveMessage and one call starts
\* at most one cycle, and no timer is ever armed. In every other mode
\* trigger() starts the polling loop at once, its receive call is sent before
\* trigger() returns, and no cycle is ever started by manualTriggerFunction.
C32_ManualMode ==
  /\ []((variant = "manual" /\ mode = "manual") =>
          /\ ~pollTimer
          /\ \A s \in Slots : cycles[s].src # "timer"
          /\ phase = "created" => InProgress = {})
  /\ [][(variant = "manual" /\ mode = "manual") =>
          /\ phase = "created" => cycles' = cycles
          /\ Cardinality({s \in Slots : /\ cycles[s].pc # "receiving"
                                        /\ cycles'[s].pc = "receiving"}) <= 1
          /\ \A s \in Slots :
               cycles'[s].pc = "receiving" => cycles[s].pc \in {"idle", "receiving"}]_vars
  /\ []((variant = "manual" /\ mode # "manual") =>
          \A s \in Slots : cycles[s].src # "manual")
  /\ [][(variant = "manual" /\ mode # "manual" /\ phase = "created" /\ phase' = "active") =>
          \E s \in Slots : cycles'[s].pc = "receiving" /\ cycles'[s].src = "timer"]_vars

\* in manual mode a call of manualTriggerFunction has fetched and emitted a
\* message, its cycle is over and no timer is armed
C32_Witness ==
  /\ variant = "manual" /\ mode = "manual" /\ phase = "active"
  /\ InProgress = {} /\ ~isPolling /\ ~pollTimer /\ ~closeRequested
  /\ outcome = "done" /\ emits # {}

\* C33: in part_000 closeFunction and a completion callback never both have a
\* DeleteMessage call outstanding for the same tracked message: while
\* closeFunction awaits the delete call of an entry, no completion callback
\* awaits a delete call for the same MessageId.
C33_NoConcurrentDeletes ==
  (variant = "manual" /\ closePc = "awaiting") =>
    \A d \in cbDeletes : d.messageId # closeDeletes[Len(closeDeletes)].messageId

\* C34: in part_000 and in part_002 no record is handed to the host once
\* closeFunction has been called.
C34_NoEmitAfterClose ==
  [][((variant = "manual" /\ closeRequested) \/ (variant = "interval" /\ closePc = "done")) =>
       emits' = emits]_vars

\* C35: in part_000 with a positive parallelMessages cap, a deferred policy and
\* the polling loop running, as long as the trigger is not closed a cycle that
\* sends a ReceiveMessage call occurs again and again: the cap never blocks
\* polling for good when every execution finishes.
C35_CapNeverBlocksForever ==
  (Deferred /\ parallelMessages \in {1, 2} /\ mode = "trigger") =>
    []<>(closeRequested \/ \E s \in Slots : cycles[s].pc = "receiving")

\* C36: in part_000 isPolling is true exactly while a poll cycle is executing:
\* every exit of pollForMessages (end of the batch, skip at the cap, receive
\* failure, shutdown during the cycle) leaves it false, and an invocation is
\* refused only when closeFunction was called or a cycle is executing.
C36_IsPollingReset ==
  /\ [](variant = "manual" => (isPolling <=> InProgress # {}))
  /\ [][variant = "manual" =>
          /\ \A s \in Slots :
               (cycles[s].pc # "idle" /\ cycles'[s].pc = "idle") => ~isPolling'
          /\ ((TimerFires \/ ManualTriggerFunction) /\ InProgress' = {}) => ~isPolling'
          /\ ((TimerFires \/ ManualTriggerFunction) /\ outcome' = "refused") =>
               (closeRequested \/ InProgress # {})]_vars

\* a cycle ended with a receive failure and the next cycle was not refused
C36_Witness ==
  /\ variant = "manual" /\ ~closeRequested /\ outcome = "emitError"
  /\ isPolling /\ \E s \in Slots : cycles[s].pc = "receiving"

====
